---- MODULE Spec2Model ----
(***************************************************************************)
(* Model of backend/app.py: a Flask relay with three endpoints (chat,      *)
(* branch, branch_summary) that assemble a message list, post it to the    *)
(* upstream completion API (stream_completion) and, only after the         *)
(* upstream status has been inspected, re-stream the decoded text deltas   *)
(* (generate).                                                             *)
(*                                                                         *)
(* Text is a sequence of string tokens, so that slicing, stripping and     *)
(* prefix tests are computed.  JSON values are tagged records [t, v].      *)
(***************************************************************************)
EXTENDS Integers, Sequences, FiniteSets, TLC

VARIABLES
    GROQ_API_KEY,   \* module global read from the environment at import
    pc,             \* "idle" | "returned" | "streaming" | "finished"
    request,        \* the inbound request while its request context is alive
    posts,          \* payload message lists posted upstream for this call
    ncalls,         \* number of upstream requests issued for this call
    upstream,       \* what requests.post did for this call: nothing yet, the
                    \* exception it raised, or the response object r
    resp,           \* the caller-facing response
    lines,          \* body lines the upstream has sent on the open response
    closed,         \* the upstream has closed its side of the response
    idx,            \* how many of `lines` r.iter_lines() has handed to generate()
    out,            \* chunks yielded to the caller so far
    ended,          \* how generate() ended: "no" | "done" | "eof" | "abort"
                    \* | "cancelled" (closed by the server, the caller is gone)
    conn,           \* the upstream connection of this call: "none" | "open"
                    \* | "released"
    calls           \* the locals of each of several calls in flight at once

vars == <<GROQ_API_KEY, pc, request, posts, ncalls, upstream, resp,
          lines, closed, idx, out, ended, conn, calls>>

----------------------------------------------------------------------------
(* Bounds of the model. *)
MaxHist == 1
MaxTurns == 1
MaxLines == 3
SelSlack == 2          \* selection lengths within SelSlack of the limit
CallLines == 2         \* upstream lines per call when calls run concurrently

(* Program constants. *)
SelectionLimit == 3000
StatusOK == 200
StatusNoContent == 204
StatusBadRequest == 400
StatusServerError == 500
StatusBadGateway == 502

----------------------------------------------------------------------------
(* Sequences of length at most n over S. *)
SeqUpTo(S, n) == UNION {[1..k -> S] : k \in 0..n}

(* Mutant: the slice keeps one character too many, [:3001]. *)
Take_one_more(s, n) == IF Len(s) <= n THEN s ELSE SubSeq(s, 1, n + 1)

(* Python s[:n]. *)
Take(s, n) == IF Len(s) <= n THEN s ELSE SubSeq(s, 1, n)

IsSpace(c) == c = " "

(* Drop the leading, the trailing white space: the text from its first,   *)
(* up to its last, character that is no space (written without recursion, *)
(* texts run to thousands of characters).                                 *)
LStrip(s) ==
    IF \A i \in 1..Len(s) : IsSpace(s[i]) THEN <<>>
    ELSE SubSeq(s, CHOOSE i \in 1..Len(s) :
                      ~IsSpace(s[i]) /\ \A j \in 1..(i - 1) : IsSpace(s[j]),
                Len(s))

RStrip(s) ==
    IF \A i \in 1..Len(s) : IsSpace(s[i]) THEN <<>>
    ELSE SubSeq(s, 1, CHOOSE i \in 1..Len(s) :
                         ~IsSpace(s[i]) /\ \A j \in (i + 1)..Len(s) : IsSpace(s[j]))

(* Python str.strip(). *)
Strip(s) == RStrip(LStrip(s))

RECURSIVE Flatten(_)
Flatten(ss) == IF ss = <<>> THEN <<>> ELSE Head(ss) \o Flatten(Tail(ss))

----------------------------------------------------------------------------
(* JSON values as Python sees them after request.get_json / dict.get. *)
Absent == [t |-> "absent", v |-> <<>>]       \* key missing: dict.get gives None
JStr(s) == [t |-> "str", v |-> s]
JNum(n) == [t |-> "num", v |-> n]
JList(l) == [t |-> "list", v |-> l]
JObj(f) == [t |-> "obj", v |-> f]
Msg(role, content) == JObj([role |-> role, content |-> content])

IsStr(j) == j.t = "str"
IsDict(j) == j.t = "obj"

(* Python truthiness, as used by `x or default`. *)
Truthy(j) ==
    CASE j.t = "absent" -> FALSE
      [] j.t = "str" -> j.v # <<>>
      [] j.t = "num" -> j.v # 0
      [] j.t = "list" -> j.v # <<>>
      [] OTHER -> TRUE

Or(j, d) == IF Truthy(j) THEN j ELSE d

User == JStr(<<"user">>)
Assistant == JStr(<<"assistant">>)
System == JStr(<<"system">>)

----------------------------------------------------------------------------
(* Caller-facing responses.  A JSON body {"error": <text>} is ErrorObj.    *)
NoBody == [t |-> "none", v |-> <<>>]
ErrorObj(text) == [t |-> "errdict", v |-> JStr(text)]

NoResponse == [kind |-> "none", status |-> 0, body |-> NoBody]
EmptyResponse(status) == [kind |-> "empty", status |-> status, body |-> NoBody]
JsonResponse(status, body) == [kind |-> "json", status |-> status, body |-> body]
StreamResponse == [kind |-> "stream", status |-> StatusOK, body |-> NoBody]
(* An exception that leaves the view: Flask answers 500 with an HTML page. *)
UnhandledError == [kind |-> "crash", status |-> StatusServerError, body |-> NoBody]

(* The upstream side: requests.post either raises RequestException or      *)
(* returns a response with a status code and a body.                       *)
NoUpstream == [t |-> "none", status |-> 0, json |-> Absent, text |-> <<>>]
NotJson == [t |-> "invalid", v |-> <<>>]
PostRaises(cause) == [t |-> "raise", status |-> 0, json |-> NotJson, text |-> cause]
PostReturns(status, json, text) ==
    [t |-> "resp", status |-> status, json |-> json, text |-> text]

(* Upstream error bodies: parsed JSON and raw text.                        *)
DErr(inner) == [t |-> "errdict", v |-> inner]          \* {"error": inner}
DMessage(m) == [t |-> "msgdict", v |-> m]              \* {"message": m}
DOtherDict == [t |-> "dict", v |-> <<"code">>]         \* a dict without the key
DArray == [t |-> "array", v |-> <<"bad">>]             \* JSON that is no dict

UpstreamBodies ==
    { [json |-> DErr(DMessage(JStr(<<"rate limited">>))),
       text |-> <<"{\"error\":{\"message\":\"rate limited\"}}">>],
      [json |-> DErr(JStr(<<"flat">>)), text |-> <<"{\"error\":\"flat\"}">>],
      [json |-> DErr(DOtherDict), text |-> <<"{\"error\":{\"code\":1}}">>],
      [json |-> DOtherDict, text |-> <<"{\"code\":1}">>],
      [json |-> DArray, text |-> <<"[\"bad\"]">>],
      [json |-> NotJson, text |-> <<"<html>Bad Gateway</html>">>],
      [json |-> NotJson, text |-> <<>>] }

UpstreamStatuses == {200, 201, 302, 429}

UpstreamResults ==
    {PostRaises(<<"connection refused">>)}
    \cup {PostReturns(StatusOK, NotJson, <<>>)}
    \cup {PostReturns(s, b.json, b.text) :
            s \in UpstreamStatuses \ {StatusOK}, b \in UpstreamBodies}

----------------------------------------------------------------------------
(* stream_completion, lines 209-218: the body relayed for a non-200.       *)
(* Mutant: every non-200 body is wrapped as {"error": ...}. *)
ErrorBody_always_wrap(up) ==
    IF up.json # NotJson /\ up.json.t = "errdict" /\ up.json.v.t = "msgdict"
    THEN [t |-> "errdict", v |-> up.json.v.v]
    ELSE ErrorObj(IF up.text # <<>> THEN up.text ELSE <<"Unknown error from Groq">>)

ErrorBody(up) ==
    IF up.json = NotJson
    THEN \* r.json() raised
         ErrorObj(IF up.text # <<>> THEN up.text ELSE <<"Unknown error from Groq">>)
    ELSE IF up.json.t = "errdict" /\ up.json.v.t = "msgdict"
         THEN [t |-> "errdict", v |-> up.json.v.v]
         ELSE up.json

(* Mutant: the status is not inspected before the stream is returned. *)
stream_completion_unchecked(messages, up) ==
    IF up.t = "raise"
    THEN [resp |-> JsonResponse(StatusBadGateway,
                     ErrorObj(<<"Network error contacting Groq: ">> \o up.text)),
          posts |-> <<messages>>, upstream |-> up]
    ELSE [resp |-> StreamResponse, posts |-> <<messages>>, upstream |-> up]

(* Mutant: an upstream rejection is answered with 502, not with its status. *)
stream_completion_fixed_status(messages, up) ==
    IF up.t = "raise" \/ up.status # StatusOK
    THEN [resp |-> JsonResponse(StatusBadGateway,
                     IF up.t = "raise"
                     THEN ErrorObj(<<"Network error contacting Groq: ">> \o up.text)
                     ELSE ErrorBody(up)),
          posts |-> <<messages>>, upstream |-> up]
    ELSE [resp |-> StreamResponse, posts |-> <<messages>>, upstream |-> up]

(* Mutant: a failed post is tried once more before the 502 is returned. *)
stream_completion_retry(messages, up) ==
    IF up.t = "raise"
    THEN [resp |-> JsonResponse(StatusBadGateway,
                     ErrorObj(<<"Network error contacting Groq: ">> \o up.text)),
          posts |-> <<messages, messages>>, upstream |-> up]
    ELSE IF up.status # StatusOK
         THEN [resp |-> JsonResponse(up.status, ErrorBody(up)),
               posts |-> <<messages>>, upstream |-> up]
         ELSE [resp |-> StreamResponse, posts |-> <<messages>>, upstream |-> up]

(* Mutant: a rejected post is sent a second time before the error is      *)
(* relayed.                                                                *)
stream_completion_retry_rejected(messages, up) ==
    IF up.t = "raise"
    THEN [resp |-> JsonResponse(StatusBadGateway,
                     ErrorObj(<<"Network error contacting Groq: ">> \o up.text)),
          posts |-> <<messages>>, upstream |-> up]
    ELSE IF up.status # StatusOK
         THEN [resp |-> JsonResponse(up.status, ErrorBody(up)),
               posts |-> <<messages, messages>>, upstream |-> up]
         ELSE [resp |-> StreamResponse, posts |-> <<messages>>, upstream |-> up]

(* Mutant: any status below 400 is streamed, the test is `>= 400`. *)
stream_completion_streams_below_400(messages, up) ==
    IF up.t = "raise"
    THEN [resp |-> JsonResponse(StatusBadGateway,
                     ErrorObj(<<"Network error contacting Groq: ">> \o up.text)),
          posts |-> <<messages>>, upstream |-> up]
    ELSE IF up.status >= 400
         THEN [resp |-> JsonResponse(up.status, ErrorBody(up)),
               posts |-> <<messages>>, upstream |-> up]
         ELSE [resp |-> StreamResponse, posts |-> <<messages>>, upstream |-> up]

(* stream_completion up to the point where the Response is returned.       *)
(* The generator body runs later, when the server iterates the response.   *)
stream_completion(messages, up) ==
    IF up.t = "raise"
    THEN [resp |-> JsonResponse(StatusBadGateway,
                     ErrorObj(<<"Network error contacting Groq: ">> \o up.text)),
          posts |-> <<messages>>, upstream |-> up]
    ELSE IF up.status # StatusOK
         THEN [resp |-> JsonResponse(up.status, ErrorBody(up)),
               posts |-> <<messages>>, upstream |-> up]
         ELSE [resp |-> StreamResponse, posts |-> <<messages>>, upstream |-> up]

Returned(response) == [resp |-> response, posts |-> <<>>, upstream |-> NoUpstream]

(* The connection behind r when stream_completion returns.  requests.post  *)
(* with stream=True leaves it open; a post that raised has none; on a      *)
(* status other than 200 r.json() / r.text read the body to its end, which *)
(* hands the connection back.                                              *)
ConnectionAfterPost(up) ==
    IF up.t # "resp" THEN "none"
    ELSE IF up.status # StatusOK THEN "released"
    ELSE "open"

----------------------------------------------------------------------------
(* Endpoint handlers.  `req` is the inbound request, `up` is what the      *)
(* upstream call does if the handler gets as far as making it.             *)
(* Mutant: `if GROQ_API_KEY is None`, never true of the "" default. *)
credential_missing_is_none == FALSE

(* `if not GROQ_API_KEY` *)
credential_missing == GROQ_API_KEY = ""

CredentialMissing ==
    JsonResponse(StatusServerError, ErrorObj(<<"GROQ_API_KEY missing">>))

(* request.get_json(force=True, silent=True) or {} *)
EmptyFields ==
    [messages |-> Absent, selection |-> Absent, history |-> Absent,
     question |-> Absent, popup_turns |-> Absent]
DataOf(req) == Or(req.body, JObj(EmptyFields))

(* for m in history: keep dicts holding both keys, lines 107-109, 152-154 *)
RECURSIVE HistoryMessages(_)
HistoryMessages(history) ==
    IF history = <<>> THEN <<>>
    ELSE LET m == Head(history)
         IN  (IF IsDict(m) /\ m.v.role # Absent /\ m.v.content # Absent
              THEN <<Msg(m.v.role, m.v.content)>> ELSE <<>>)
             \o HistoryMessages(Tail(history))

SelectionMessage(selection) ==
    Msg(User, JStr(<<"Selected Context:\n">> \o selection))

(* Mutant: the role test of line 119 is lost, any role is appended. *)
ValidTurn_any_role(t) == IsStr(Or(t.v.content, JStr(<<>>)))

ValidTurn(t) ==
    /\ t.v.role \in {User, Assistant}
    /\ IsStr(Or(t.v.content, JStr(<<>>)))

(* for t in popup_turns, lines 116-120 *)
RECURSIVE BranchTurns(_)
BranchTurns(turns) ==
    IF turns = <<>> THEN <<>>
    ELSE LET t == Head(turns)
         IN  (IF ValidTurn(t)
              THEN <<Msg(t.v.role, Or(t.v.content, JStr(<<>>)))>> ELSE <<>>)
             \o BranchTurns(Tail(turns))

(* Mutant: the turns keep their own role and get no prefix. *)
SummaryTurns_keep_role(turns) ==
    SelectSeq(turns, LAMBDA t : t.v.role \in {User, Assistant} /\ IsStr(t.v.content))

(* for t in popup_turns, lines 163-168 *)
RECURSIVE SummaryTurns(_)
SummaryTurns(turns) ==
    IF turns = <<>> THEN <<>>
    ELSE LET t == Head(turns)
             content == Or(t.v.content, JStr(<<>>))
             prefix == IF t.v.role = User THEN "User:" ELSE "Assistant:"
         IN  (IF ValidTurn(t)
              THEN <<Msg(User, JStr(<<prefix, " ">> \o content.v))>> ELSE <<>>)
             \o SummaryTurns(Tail(turns))

(* t.get(...) raises AttributeError on an entry that is no dict. *)
TurnsRaise(turns) == \E i \in 1..Len(turns) : ~IsDict(turns[i])

TranscriptHeader == Msg(User, JStr(<<"Below is the branch conversation transcript:">>))
SummaryInstruction ==
    Msg(User, JStr(<<"Write a concise summary of the branch conversation for a student.\n",
                     "- 5-8 bullet points\n",
                     "- 1-line key takeaway at the end\n",
                     "- Do NOT repeat the full selected text; focus on the conversation's conclusions and clarifications.">>))

SelectionRequired ==
    JsonResponse(StatusBadRequest, ErrorObj(<<"selection required">>))
ProvideEither ==
    JsonResponse(StatusBadRequest, ErrorObj(<<"Provide either popup_turns or question">>))

(* Mutant: the final else is lost, the question is sent even when empty. *)
branch_mode_no_else(popup_turns, question) ==
    IF popup_turns # <<>> THEN "popup_turns" ELSE "question"

(* Mutant: a request carrying both a question and popup turns is refused. *)
branch_mode_exactly_one(popup_turns, question) ==
    IF popup_turns # <<>> /\ question # <<>> THEN "neither"
    ELSE IF popup_turns # <<>> THEN "popup_turns"
    ELSE IF question # <<>> THEN "question"
    ELSE "neither"

(* The if / elif / else of lines 115-125. *)
branch_mode(popup_turns, question) ==
    IF popup_turns # <<>> THEN "popup_turns"
    ELSE IF question # <<>> THEN "question"
    ELSE "neither"

(* Mutant: the credential test comes before the OPTIONS test. *)
chat_credential_first(req, up) ==
    IF credential_missing THEN Returned(CredentialMissing)
    ELSE IF req.method = "OPTIONS" THEN Returned(EmptyResponse(StatusNoContent))
    ELSE LET data == DataOf(req)
         IN  IF ~IsDict(data) THEN Returned(UnhandledError)
             ELSE stream_completion(data.v.messages, up)

chat(req, up) ==
    IF req.method = "OPTIONS" THEN Returned(EmptyResponse(StatusNoContent))
    ELSE IF credential_missing THEN Returned(CredentialMissing)
    ELSE LET data == DataOf(req)
         IN  IF ~IsDict(data) THEN Returned(UnhandledError)      \* data.get
             ELSE stream_completion(data.v.messages, up)

branch(req, up) ==
    IF req.method = "OPTIONS" THEN Returned(EmptyResponse(StatusNoContent))
    ELSE IF credential_missing THEN Returned(CredentialMissing)
    ELSE LET data == DataOf(req)
         IN
         IF ~IsDict(data) THEN Returned(UnhandledError)          \* data.get
         ELSE
         LET selection == Take(Or(data.v.selection, JStr(<<>>)).v, SelectionLimit)
             history == Or(data.v.history, JList(<<>>)).v
             q == Or(data.v.question, JStr(<<>>))
             popup_turns == Or(data.v.popup_turns, JList(<<>>)).v
         IN
         IF ~IsStr(q) THEN Returned(UnhandledError)              \* .strip()
         ELSE
         LET question == Strip(q.v)
             base == HistoryMessages(history) \o <<SelectionMessage(selection)>>
         IN
         IF Strip(selection) = <<>> THEN Returned(SelectionRequired)
         ELSE LET mode == branch_mode(popup_turns, question)
              IN
              IF mode = "popup_turns"
              THEN IF TurnsRaise(popup_turns) THEN Returned(UnhandledError)
                   ELSE stream_completion(JList(base \o BranchTurns(popup_turns)), up)
              ELSE IF mode = "question"
                   THEN stream_completion(JList(base \o <<Msg(User, JStr(question))>>), up)
                   ELSE Returned(ProvideEither)

branch_summary(req, up) ==
    IF req.method = "OPTIONS" THEN Returned(EmptyResponse(StatusNoContent))
    ELSE IF credential_missing THEN Returned(CredentialMissing)
    ELSE LET data == DataOf(req)
         IN
         IF ~IsDict(data) THEN Returned(UnhandledError)          \* data.get
         ELSE
         LET selection == Take(Or(data.v.selection, JStr(<<>>)).v, SelectionLimit)
             popup_turns == Or(data.v.popup_turns, JList(<<>>)).v
             history == Or(data.v.history, JList(<<>>)).v
             base == HistoryMessages(history) \o <<SelectionMessage(selection)>>
         IN
         IF Strip(selection) = <<>> THEN Returned(SelectionRequired)
         ELSE IF popup_turns # <<>> /\ TurnsRaise(popup_turns)
              THEN Returned(UnhandledError)
              ELSE stream_completion(
                     JList(base
                           \o (IF popup_turns # <<>>
                               THEN <<TranscriptHeader>> \o SummaryTurns(popup_turns)
                               ELSE <<>>)
                           \o <<SummaryInstruction>>), up)

----------------------------------------------------------------------------
(* generate(), lines 221-237. *)
DataPrefix == "data: "
DoneSentinel == <<"[DONE]">>

(* json.loads on the payloads the model uses: the parsed event, or a raise. *)
Choice(hasdelta, content) == [hasdelta |-> hasdelta, content |-> content]
Event(haschoices, choices) ==
    [raises |-> FALSE, haschoices |-> haschoices, choices |-> choices]
ParseError == [raises |-> TRUE, haschoices |-> FALSE, choices |-> <<>>]

json_loads(data_str) ==
    CASE data_str = <<"{\"choices\":[{\"delta\":{\"content\":\"Hi\"}}]}">> ->
            Event(TRUE, <<Choice(TRUE, JStr(<<"Hi">>))>>)
      [] data_str = <<"{\"choices\":[{\"delta\":{\"content\":\" there\"}}]}">> ->
            Event(TRUE, <<Choice(TRUE, JStr(<<" there">>))>>)
      [] data_str = <<"{\"choices\":[{\"delta\":{\"content\":\"\"}}]}">> ->
            Event(TRUE, <<Choice(TRUE, JStr(<<>>))>>)
      [] data_str = <<"{\"choices\":[{\"delta\":{\"role\":\"assistant\"}}]}">> ->
            Event(TRUE, <<Choice(TRUE, Absent)>>)
      [] data_str = <<"{\"choices\":[{\"delta\":{\"content\":5}}]}">> ->
            Event(TRUE, <<Choice(TRUE, JNum(5))>>)
      [] data_str = <<"{\"choices\":[]}">> -> Event(TRUE, <<>>)
      [] data_str = <<"{\"id\":\"x\"}">> -> Event(FALSE, <<>>)
      [] OTHER -> ParseError

(* Mutant: a payload that does not parse is passed on as it came. *)
DeltaChunk_raw_on_error(data_str) ==
    LET event == json_loads(data_str)
    IN  IF event.raises \/ ~event.haschoices \/ event.choices = <<>>
           \/ ~event.choices[1].hasdelta
        THEN data_str
        ELSE LET delta == IF event.choices[1].content = Absent
                          THEN JStr(<<>>)
                          ELSE event.choices[1].content
             IN  IF ~Truthy(delta) THEN <<>>
                 ELSE IF ~IsStr(delta) THEN <<>>
                 ELSE delta.v

(* One pass of the try block, lines 230-237: the chunk yielded, or <<>>    *)
(* when nothing is yielded (no delta, or an exception that is swallowed).  *)
DeltaChunk(data_str) ==
    LET event == json_loads(data_str)
    IN  IF event.raises \/ ~event.haschoices \/ event.choices = <<>>
           \/ ~event.choices[1].hasdelta
        THEN <<>>                                   \* except Exception: continue
        ELSE LET delta == IF event.choices[1].content = Absent
                          THEN JStr(<<>>)           \* .get("content", "")
                          ELSE event.choices[1].content
             IN  IF ~Truthy(delta) THEN <<>>
                 ELSE IF ~IsStr(delta) THEN <<>>    \* .encode raises, swallowed
                 ELSE delta.v

(* Mutant: the sentinel is skipped like any other line without a delta. *)
LoopBody_no_break(line) ==
    IF line = <<>> THEN [chunk |-> <<>>, break |-> FALSE]
    ELSE IF Head(line) = DataPrefix
         THEN [chunk |-> DeltaChunk(Strip(Tail(line))), break |-> FALSE]
         ELSE [chunk |-> <<>>, break |-> FALSE]

(* Mutant: a payload that fails to decode ends the loop. *)
LoopBody_break_on_malformed(line) ==
    IF line = <<>> THEN [chunk |-> <<>>, break |-> FALSE]
    ELSE IF Head(line) = DataPrefix
         THEN LET data_str == Strip(Tail(line))
              IN  IF data_str = DoneSentinel
                  THEN [chunk |-> <<>>, break |-> TRUE]
                  ELSE [chunk |-> DeltaChunk(data_str),
                        break |-> json_loads(data_str).raises]
         ELSE [chunk |-> <<>>, break |-> FALSE]

(* One iteration of the for loop over a line. *)
LoopBody(line) ==
    IF line = <<>> THEN [chunk |-> <<>>, break |-> FALSE]
    ELSE IF Head(line) = DataPrefix
         THEN LET data_str == Strip(Tail(line))
              IN  IF data_str = DoneSentinel
                  THEN [chunk |-> <<>>, break |-> TRUE]
                  ELSE [chunk |-> DeltaChunk(data_str), break |-> FALSE]
         ELSE [chunk |-> <<>>, break |-> FALSE]

(* The whole loop over a finite line sequence that is read to its end. *)
RECURSIVE generate(_)
generate(ls) ==
    IF ls = <<>> THEN <<>>
    ELSE LET step == LoopBody(Head(ls))
         IN  IF step.break THEN <<>>
             ELSE (IF step.chunk # <<>> THEN <<step.chunk>> ELSE <<>>)
                  \o generate(Tail(ls))

Data(payload) == <<DataPrefix>> \o payload

FrameHi == Data(<<"{\"choices\":[{\"delta\":{\"content\":\"Hi\"}}]}">>)
FrameThere == Data(<<"{\"choices\":[{\"delta\":{\"content\":\" there\"}}]}">>)
FrameDone == Data(DoneSentinel)

UpstreamLines ==
    { <<>>,                                                     \* blank line
      <<": keep-alive">>,                                       \* no data prefix
      FrameDone,
      Data(<<" ", "[DONE]", " ">>),                             \* padded sentinel
      Data(<<"{\"choices\":[{\"de">>),                          \* not JSON
      Data(<<"{\"id\":\"x\"}">>),                               \* JSON, no choices
      Data(<<"{\"choices\":[]}">>),                             \* JSON, no choices[0]
      Data(<<"{\"choices\":[{\"delta\":{\"content\":\"\"}}]}">>),
      Data(<<"{\"choices\":[{\"delta\":{\"role\":\"assistant\"}}]}">>),
      Data(<<"{\"choices\":[{\"delta\":{\"content\":5}}]}">>),
      FrameHi,
      FrameThere }

----------------------------------------------------------------------------
(* Inbound requests. *)
Texts == {<<>>, <<" ">>, <<"a">>, <<" ", "a", " ">>}
Selections == {Absent} \cup {JStr(s) : s \in Texts}
Questions == {Absent, JStr(<<" ">>), JStr(<<"q", " ">>), JNum(7)}

HistEntries ==
    { Msg(User, JStr(<<"h">>)),
      Msg(System, JStr(<<"s">>)),
      Msg(Assistant, Absent),                 \* a dict without "content"
      JStr(<<"junk">>) }                      \* not a dict
Histories == {Absent} \cup {JList(h) : h \in SeqUpTo(HistEntries, MaxHist)}

TurnEntries ==
    { Msg(User, JStr(<<"u">>)),
      Msg(Assistant, JStr(<<"a">>)),
      Msg(System, JStr(<<"x">>)),             \* role outside user/assistant
      Msg(User, JNum(5)),                     \* content that is no text
      Msg(Assistant, Absent),                 \* no "content": becomes ""
      JNum(3) }                               \* not a dict
PopupTurns == {Absent} \cup {JList(t) : t \in SeqUpTo(TurnEntries, MaxTurns)}

ChatMessages ==
    { Absent, JList(<<>>), JList(<<Msg(User, JStr(<<"hello">>))>>),
      JList(<<Msg(System, JStr(<<"be brief">>)), Msg(User, JStr(<<"hello">>))>>) }

(* A body that is no JSON gives None; a JSON array is a body that is no dict. *)
NoJsonBody == Absent
ArrayBody == JList(<<JNum(1)>>)

ChatBodies ==
    {NoJsonBody, ArrayBody} \cup {JObj([EmptyFields EXCEPT !.messages = m]) : m \in ChatMessages}
BranchBodies ==
    {NoJsonBody, ArrayBody}
    \cup {JObj([EmptyFields EXCEPT !.selection = s, !.history = h,
                                   !.question = q, !.popup_turns = p]) :
            s \in Selections, h \in Histories, q \in Questions, p \in PopupTurns}
SummaryBodies ==
    {NoJsonBody, ArrayBody}
    \cup {JObj([EmptyFields EXCEPT !.selection = s, !.history = h, !.popup_turns = p]) :
            s \in Selections, h \in Histories, p \in PopupTurns}

Methods == {"POST", "OPTIONS"}
Request(endpoint, method, body) ==
    [endpoint |-> endpoint, method |-> method, body |-> body]
NoRequest == Request("none", "none", Absent)

----------------------------------------------------------------------------
(* Calls in flight at the same time (app.run(..., threaded=True)), each    *)
(* with the locals of its own stream_completion frame.                     *)
Calls == {"c1", "c2"}
IdleCall ==
    [pc |-> "idle", messages |-> Absent, upstream |-> NoUpstream, resp |-> NoResponse,
     lines |-> <<>>, closed |-> FALSE, idx |-> 0, out |-> <<>>, ended |-> "no"]

Init ==
    /\ GROQ_API_KEY \in {"", "sk_test"}
    /\ pc = "idle"
    /\ request = NoRequest
    /\ posts = <<>>
    /\ ncalls = 0
    /\ upstream = NoUpstream
    /\ resp = NoResponse
    /\ lines = <<>>
    /\ closed = FALSE
    /\ idx = 0
    /\ out = <<>>
    /\ ended = "no"
    /\ conn = "none"
    /\ calls = [c \in Calls |-> IdleCall]

(* A view function runs to its return statement: the request, what it     *)
(* posted upstream, the upstream response object and the Response.        *)
Handle(req, res) ==
    /\ pc' = "returned"
    /\ request' = req
    /\ posts' = res.posts
    /\ ncalls' = Len(res.posts)
    /\ upstream' = res.upstream
    /\ resp' = res.resp
    /\ conn' = ConnectionAfterPost(res.upstream)
    /\ UNCHANGED <<GROQ_API_KEY, lines, closed, idx, out, ended, calls>>

Chat ==
    /\ pc = "idle"
    /\ \E m \in Methods, b \in ChatBodies, up \in UpstreamResults :
         Handle(Request("chat", m, b), chat(Request("chat", m, b), up))

Branch ==
    /\ pc = "idle"
    /\ \E m \in Methods, b \in BranchBodies, up \in UpstreamResults :
         Handle(Request("branch", m, b), branch(Request("branch", m, b), up))

BranchSummary ==
    /\ pc = "idle"
    /\ \E m \in Methods, b \in SummaryBodies, up \in UpstreamResults :
         Handle(Request("branch_summary", m, b),
                branch_summary(Request("branch_summary", m, b), up))

(* The server takes the returned Response: the request context and the    *)
(* view's locals are gone; a generator body starts to be iterated, any    *)
(* other body is sent whole.                                              *)
SendResponse ==
    /\ pc = "returned"
    /\ pc' = IF resp.kind = "stream" THEN "streaming" ELSE "finished"
    /\ request' = NoRequest
    /\ posts' = <<>>
    /\ UNCHANGED <<GROQ_API_KEY, ncalls, upstream, resp, lines, closed, idx, out, ended,
                   conn, calls>>

(* The upstream writes one more line on a 200 response it has not closed. *)
UpstreamLine ==
    /\ pc \in {"streaming", "finished"}
    /\ resp.kind = "stream"
    /\ ended # "abort"
    /\ ~closed
    /\ Len(lines) < MaxLines
    /\ \E line \in UpstreamLines : lines' = Append(lines, line)
    /\ UNCHANGED <<GROQ_API_KEY, pc, request, posts, ncalls, upstream, resp,
                   closed, idx, out, ended, conn, calls>>

UpstreamClose ==
    /\ pc \in {"streaming", "finished"}
    /\ resp.kind = "stream"
    /\ ended # "abort"
    /\ ~closed
    /\ closed' = TRUE
    /\ UNCHANGED <<GROQ_API_KEY, pc, request, posts, ncalls, upstream, resp,
                   lines, idx, out, ended, conn, calls>>

(* for line in r.iter_lines(): one iteration on the next line. *)
GenerateLine ==
    /\ pc = "streaming"
    /\ idx < Len(lines)
    /\ LET step == LoopBody(lines[idx + 1])
       IN  /\ idx' = idx + 1
           /\ out' = IF step.chunk # <<>> THEN Append(out, step.chunk) ELSE out
           /\ ended' = IF step.break THEN "done" ELSE ended
           /\ pc' = IF step.break THEN "finished" ELSE pc
    /\ UNCHANGED <<GROQ_API_KEY, request, posts, ncalls, upstream, resp, lines, closed,
                   conn, calls>>

(* r.iter_lines() is exhausted: the upstream closed after its last line.  *)
(* The body was read to its end, which hands the connection back.         *)
GenerateExhausted ==
    /\ pc = "streaming"
    /\ closed
    /\ idx = Len(lines)
    /\ ended' = "eof"
    /\ pc' = "finished"
    /\ conn' = "released"
    /\ UNCHANGED <<GROQ_API_KEY, request, posts, ncalls, upstream, resp,
                   lines, closed, idx, out, calls>>

(* r.iter_lines() raises (connection reset, read timeout): the loop is    *)
(* not inside a try, so the exception leaves generate().                  *)
GenerateReadError ==
    /\ pc = "streaming"
    /\ ~closed
    /\ idx = Len(lines)
    /\ ended' = "abort"
    /\ pc' = "finished"
    /\ conn' = "released"
    /\ UNCHANGED <<GROQ_API_KEY, request, posts, ncalls, upstream, resp,
                   lines, closed, idx, out, calls>>

(* The caller goes away while generate() is suspended at its yield: the   *)
(* server's write of the chunk fails and it closes the response iterable, *)
(* GeneratorExit ends generate() at line 234.  No statement of            *)
(* stream_completion or generate() closes r.                              *)
CallerDisconnect ==
    /\ pc = "streaming"
    /\ idx >= 1
    /\ LoopBody(lines[idx]).chunk # <<>>
    /\ ended' = "cancelled"
    /\ pc' = "finished"
    /\ UNCHANGED <<GROQ_API_KEY, request, posts, ncalls, upstream, resp,
                   lines, closed, idx, out, conn, calls>>

(* The call is over; the worker takes the next inbound request. *)
NextRequest ==
    /\ pc = "finished"
    /\ pc' = "idle"
    /\ request' = NoRequest
    /\ posts' = <<>>
    /\ ncalls' = 0
    /\ upstream' = NoUpstream
    /\ resp' = NoResponse
    /\ lines' = <<>>
    /\ closed' = FALSE
    /\ idx' = 0
    /\ out' = <<>>
    /\ ended' = "no"
    /\ conn' = "none"
    /\ UNCHANGED <<GROQ_API_KEY, calls>>

Next ==
    \/ Chat
    \/ Branch
    \/ BranchSummary
    \/ SendResponse
    \/ UpstreamLine
    \/ UpstreamClose
    \/ GenerateLine
    \/ GenerateExhausted
    \/ GenerateReadError
    \/ CallerDisconnect
    \/ NextRequest

Spec == Init /\ [][Next]_vars

----------------------------------------------------------------------------
(* The selection slice of lines 97 and 142 on selections around the limit. *)
(* Characters before the limit are `fill`, the one at the limit is `last`, *)
(* every character beyond it is "z".                                       *)
LongSelection(n, fill, last) ==
    [i \in 1..n |-> IF i > SelectionLimit THEN "z"
                    ELSE IF i = SelectionLimit THEN last ELSE fill]
LongLengths == {1} \cup {SelectionLimit + d : d \in (0 - SelSlack)..SelSlack}
LongSelections ==
    {JStr(LongSelection(n, fill, last)) :
        n \in LongLengths, fill \in {"a", " "}, last \in {"y", " "}}

LongBranchBodies ==
    {JObj([EmptyFields EXCEPT !.selection = s, !.history = h,
                              !.question = q, !.popup_turns = p]) :
        s \in LongSelections,
        h \in {Absent, JList(<<Msg(User, JStr(<<"h">>))>>)},
        q \in {Absent, JStr(<<"q">>)},
        p \in {Absent, JList(<<Msg(User, JStr(<<"u">>))>>)}}
LongSummaryBodies ==
    {JObj([EmptyFields EXCEPT !.selection = s, !.history = h, !.popup_turns = p]) :
        s \in LongSelections,
        h \in {Absent, JList(<<Msg(User, JStr(<<"h">>))>>)},
        p \in {Absent, JList(<<Msg(User, JStr(<<"u">>))>>)}}
LongUpstream == {up \in UpstreamResults : up.t = "raise" \/ up.status = StatusOK}

BranchLong ==
    /\ pc = "idle"
    /\ \E b \in LongBranchBodies, up \in LongUpstream :
         Handle(Request("branch", "POST", b), branch(Request("branch", "POST", b), up))

BranchSummaryLong ==
    /\ pc = "idle"
    /\ \E b \in LongSummaryBodies, up \in LongUpstream :
         Handle(Request("branch_summary", "POST", b),
                branch_summary(Request("branch_summary", "POST", b), up))

NextLong ==
    \/ BranchLong
    \/ BranchSummaryLong
    \/ SendResponse
    \/ NextRequest

SpecLong == Init /\ [][NextLong]_vars

----------------------------------------------------------------------------
(* Calls served at the same time.  Each call runs chat and then its own    *)
(* generate(); `calls[c]` holds the locals of call c: the messages it      *)
(* posted, its r (upstream, lines, closed), its Response and the position  *)
(* of its generator.  GROQ_API_KEY is the one module global a call reads.  *)
CallMessages(c) == JList(<<Msg(User, JStr(<<"hello from ", c>>))>>)
CallRequest(c) ==
    Request("chat", "POST", JObj([EmptyFields EXCEPT !.messages = CallMessages(c)]))
CallUpstream ==
    {up \in UpstreamResults :
        \/ up.t = "raise"
        \/ up.status = StatusOK
        \/ up.status = 429 /\ up.json = DErr(DMessage(JStr(<<"rate limited">>)))}
CallUpstreamLines == {FrameHi, FrameThere, FrameDone}

(* Mutant: r is a module-level name, every generator reads the r of "c1". *)
response_of_module_level(c) == "c1"

(* The r that generate() of call c iterates: the local of its own          *)
(* stream_completion frame, captured by the closure.                       *)
response_of(c) == c

mainvars == <<pc, request, posts, ncalls, upstream, resp, lines, closed, idx, out,
              ended, conn>>

CallStart(c) ==
    /\ calls[c].pc = "idle"
    /\ \E up \in CallUpstream :
         LET res == chat(CallRequest(c), up)
         IN  calls' = [calls EXCEPT ![c] =
                 [@ EXCEPT !.pc = IF res.resp.kind = "stream" THEN "streaming"
                                  ELSE "finished",
                           !.messages = IF res.posts = <<>> THEN Absent
                                        ELSE res.posts[1],
                           !.upstream = res.upstream,
                           !.resp = res.resp]]
    /\ UNCHANGED <<GROQ_API_KEY, mainvars>>

CallUpstreamLine(c) ==
    /\ calls[c].resp.kind = "stream"
    /\ calls[c].ended # "abort"
    /\ ~calls[c].closed
    /\ Len(calls[c].lines) < CallLines
    /\ \E line \in CallUpstreamLines :
         calls' = [calls EXCEPT ![c].lines = Append(@, line)]
    /\ UNCHANGED <<GROQ_API_KEY, mainvars>>

CallUpstreamClose(c) ==
    /\ calls[c].resp.kind = "stream"
    /\ calls[c].ended # "abort"
    /\ ~calls[c].closed
    /\ calls' = [calls EXCEPT ![c].closed = TRUE]
    /\ UNCHANGED <<GROQ_API_KEY, mainvars>>

CallGenerateLine(c) ==
    LET r == calls[response_of(c)]
    IN  /\ calls[c].pc = "streaming"
        /\ calls[c].idx < Len(r.lines)
        /\ LET step == LoopBody(r.lines[calls[c].idx + 1])
           IN  calls' = [calls EXCEPT ![c] =
                   [@ EXCEPT !.idx = @ + 1,
                             !.out = IF step.chunk # <<>> THEN Append(@, step.chunk)
                                     ELSE @,
                             !.ended = IF step.break THEN "done" ELSE @,
                             !.pc = IF step.break THEN "finished" ELSE @]]
        /\ UNCHANGED <<GROQ_API_KEY, mainvars>>

CallGenerateExhausted(c) ==
    LET r == calls[response_of(c)]
    IN  /\ calls[c].pc = "streaming"
        /\ r.closed
        /\ calls[c].idx = Len(r.lines)
        /\ calls' = [calls EXCEPT ![c] = [@ EXCEPT !.ended = "eof", !.pc = "finished"]]
        /\ UNCHANGED <<GROQ_API_KEY, mainvars>>

CallGenerateReadError(c) ==
    LET r == calls[response_of(c)]
    IN  /\ calls[c].pc = "streaming"
        /\ ~r.closed
        /\ calls[c].idx = Len(r.lines)
        /\ calls' = [calls EXCEPT ![c] = [@ EXCEPT !.ended = "abort", !.pc = "finished"]]
        /\ UNCHANGED <<GROQ_API_KEY, mainvars>>

NextConcurrent ==
    \/ \E c \in Calls : CallStart(c)
    \/ \E c \in Calls : CallUpstreamLine(c)
    \/ \E c \in Calls : CallUpstreamClose(c)
    \/ \E c \in Calls : CallGenerateLine(c)
    \/ \E c \in Calls : CallGenerateExhausted(c)
    \/ \E c \in Calls : CallGenerateReadError(c)

SpecConcurrent == Init /\ [][NextConcurrent]_vars

----------------------------------------------------------------------------
(* Vocabulary of the properties. *)
NothingStreamed == out = <<>> /\ idx = 0 /\ ended = "no" /\ pc # "streaming"

UpstreamRejected == upstream.t = "resp" /\ upstream.status # StatusOK
(* A non-success status: any 4xx or 5xx. *)
UpstreamNonSuccess == upstream.t = "resp" /\ upstream.status >= 400

(* A request body of the documented shape: no JSON at all, or an object    *)
(* whose question is text and whose popup turns are objects.               *)
ValidInput(req) ==
    \/ req.body = NoJsonBody
    \/ /\ IsDict(req.body)
       /\ req.body.v.question.t \in {"absent", "str"}
       /\ req.body.v.popup_turns.t = "list" =>
            \A i \in 1..Len(req.body.v.popup_turns.v) :
                IsDict(req.body.v.popup_turns.v[i])

(* The upstream lines as the protocol reads them, line by line. *)
SentinelLines == {FrameDone, Data(<<" ", "[DONE]", " ">>)}
MalformedLines ==
    { <<>>, <<": keep-alive">>, Data(<<"{\"choices\":[{\"de">>),
      Data(<<"{\"id\":\"x\"}">>), Data(<<"{\"choices\":[]}">>) }
TextDelta(line) ==
    IF line = FrameHi THEN <<"Hi">>
    ELSE IF line = FrameThere THEN <<" there">>
    ELSE <<>>

BeforeSentinel(ls) ==
    LET S == {i \in 1..Len(ls) : ls[i] \in SentinelLines}
    IN  IF S = {} THEN ls
        ELSE SubSeq(ls, 1, (CHOOSE i \in S : \A j \in S : i <= j) - 1)

RECURSIVE ConcatDeltas(_)
ConcatDeltas(ls) ==
    IF ls = <<>> THEN <<>> ELSE TextDelta(Head(ls)) \o ConcatDeltas(Tail(ls))

ExpectedBytes(ls) == ConcatDeltas(BeforeSentinel(ls))

NotMalformed(line) == line \notin MalformedLines
Consumed == SubSeq(lines, 1, idx)

----------------------------------------------------------------------------
(* C1, as stated: every request handled by chat, branch or branch_summary  *)
(* ends in exactly one of a JSON error with nothing streamed or a streamed *)
(* body without an error envelope, and nothing is streamed before the      *)
(* upstream status was seen to be success.                                 *)
C1_EveryRequestErrorOrStream ==
    /\ pc = "returned" => resp.kind \in {"json", "stream"}
    /\ resp.kind = "json" => NothingStreamed
    /\ ~NothingStreamed =>
         resp.kind = "stream" /\ upstream.t = "resp" /\ upstream.status = StatusOK

(* C1, amended: the same for every POST request with a valid body; an      *)
(* OPTIONS preflight gets an empty 204, which is neither of the two.       *)
C1_PostErrorOrStream ==
    /\ (pc = "returned" /\ request.method = "POST" /\ ValidInput(request))
         => resp.kind \in {"json", "stream"}
    /\ (pc = "returned" /\ request.method = "OPTIONS")
         => resp = EmptyResponse(StatusNoContent) /\ ncalls = 0
    /\ resp.kind = "json" => NothingStreamed
    /\ resp.kind = "stream" => resp.body = NoBody
    /\ ~NothingStreamed =>
         resp.kind = "stream" /\ upstream.t = "resp" /\ upstream.status = StatusOK

C1_Witness ==
    /\ pc = "finished" /\ resp.kind = "stream" /\ Len(out) = 2
    /\ upstream.status = StatusOK

(* C2: an upstream 4xx/5xx status s gives a JSON error response with       *)
(* status s, no streamed content, and the streaming loop is never entered. *)
C2_RejectionRelayed ==
    UpstreamNonSuccess =>
        /\ resp.kind = "json"
        /\ resp.status = upstream.status
        /\ NothingStreamed
        /\ lines = <<>>

C2_Witness ==
    /\ pc = "finished"
    /\ upstream.status = 429
    /\ resp = JsonResponse(429, ErrorObj(<<"rate limited">>))

(* C3, as stated: a stream that has begun is never ended by an error:      *)
(* there is no abort after partial output.                                 *)
C3_NoAbortAfterOutput == ~(ended = "abort" /\ out # <<>>)

(* C3, amended: errors known before the stream starts (configuration,      *)
(* validation, failure to contact upstream, upstream rejection) are JSON   *)
(* responses with nothing streamed; a started stream ends at the sentinel, *)
(* at the end of a closed upstream, by a failure while reading further     *)
(* upstream lines, or when the caller leaves after a chunk; a line that    *)
(* fails to decode never ends it.                                          *)
C3_StartedStreamEnds ==
    /\ resp.kind \in {"json", "crash", "empty"} => NothingStreamed
    /\ (upstream.t = "raise" \/ UpstreamRejected) => resp.kind = "json"
    /\ ended # "no" => resp.kind = "stream" /\ upstream.status = StatusOK
    /\ ended = "done" => idx >= 1 /\ lines[idx] \in SentinelLines
    /\ ended = "eof" => closed /\ idx = Len(lines)
    /\ ended = "abort" => ~closed /\ idx = Len(lines)
    /\ ended = "cancelled" => out # <<>>
    /\ ended \in {"no", "done", "eof", "abort", "cancelled"}

C3_Witness ==
    /\ ended = "done" /\ Len(out) = 1
    /\ \E i \in 1..idx : lines[i] \in MalformedLines

(* C4: on upstream success the bytes emitted are the concatenation, in     *)
(* upstream order, of the non-empty text deltas of the event lines before  *)
(* the first [DONE] line; nothing at or after it is emitted; the stream    *)
(* ends there, or when the upstream lines run out.                         *)
C4_BytesAreDeltasBeforeSentinel ==
    /\ ended \in {"done", "eof"} => Flatten(out) = ExpectedBytes(lines)
    /\ pc = "streaming" => Flatten(out) = ExpectedBytes(Consumed)
    /\ ended = "done" => pc = "finished"
    /\ (pc = "streaming" /\ idx >= 1) => lines[idx] \notin SentinelLines

C4_Witness ==
    /\ ended = "done"
    /\ lines = <<FrameHi, FrameThere, FrameDone>>
    /\ Flatten(out) = <<"Hi", " there">>

(* C5: malformed upstream lines between valid frames change nothing: the   *)
(* chunks emitted are those of the same line sequence with the malformed   *)
(* lines removed, and such a line neither ends the stream nor turns the    *)
(* response into an error.                                                 *)
C5_MalformedLinesIgnored ==
    /\ resp.kind = "stream" => out = generate(SelectSeq(Consumed, NotMalformed))
    /\ ended = "done" => lines[idx] \notin MalformedLines
    /\ idx >= 1 => resp.kind = "stream"

C5_Witness ==
    /\ ended = "eof"
    /\ lines = <<FrameHi, Data(<<"{\"choices\":[{\"de">>), FrameThere>>
    /\ out = <<<<"Hi">>, <<" there">>>>

(* The upstream error body has the nested shape {"error": {"message": m}}. *)
NestedShape(j) == j.t = "errdict" /\ j.v.t = "msgdict"

(* C6, as stated: for a non-success upstream response the body returned    *)
(* is {"error": <text>}, <text> being the nested message when the upstream *)
(* body has the nested shape and the raw upstream text in every other case.*)
C6_AlwaysErrorText ==
    UpstreamNonSuccess =>
        resp.body = IF NestedShape(upstream.json)
                    THEN ErrorObj(upstream.json.v.v.v)
                    ELSE ErrorObj(upstream.text)

(* C6, amended: the body is {"error": <message>} for the nested shape;     *)
(* {"error": <raw text>} when the upstream body is not JSON, with the      *)
(* fixed text "Unknown error from Groq" when the raw text is empty; and    *)
(* for JSON of any other shape the upstream JSON itself, unwrapped.        *)
C6_ErrorBodyByShape ==
    UpstreamNonSuccess =>
        /\ resp.kind = "json"
        /\ NestedShape(upstream.json) => resp.body = ErrorObj(upstream.json.v.v.v)
        /\ (upstream.json = NotJson /\ upstream.text # <<>>)
              => resp.body = ErrorObj(upstream.text)
        /\ (upstream.json = NotJson /\ upstream.text = <<>>)
              => resp.body = ErrorObj(<<"Unknown error from Groq">>)
        /\ (upstream.json # NotJson /\ ~NestedShape(upstream.json))
              => resp.body = upstream.json

C6_Witness ==
    /\ pc = "finished"
    /\ UpstreamNonSuccess
    /\ upstream.json = DArray
    /\ resp.body = DArray

(* C7: when submitting the upstream request raises a network failure the   *)
(* response is a 502 JSON error carrying the cause text, nothing is        *)
(* streamed, and no further upstream attempt is made.                      *)
C7_NetworkFailureIs502 ==
    upstream.t = "raise" =>
        /\ resp = JsonResponse(StatusBadGateway,
                    ErrorObj(<<"Network error contacting Groq: ">> \o upstream.text))
        /\ NothingStreamed
        /\ lines = <<>>
        /\ ncalls = 1

C7_Witness ==
    /\ pc = "finished"
    /\ upstream.t = "raise"
    /\ resp.status = StatusBadGateway
    /\ resp.body = ErrorObj(<<"Network error contacting Groq: ", "connection refused">>)

(* C8: with no API credential every POST to chat, branch and               *)
(* branch_summary returns the same fixed credential-missing JSON error,    *)
(* whatever the body, and no upstream call is made in any such run.        *)
C8_CredentialMissingShortCircuits ==
    GROQ_API_KEY = "" =>
        /\ (pc = "returned" /\ request.method = "POST") => resp = CredentialMissing
        /\ resp.kind \in {"none", "empty", "json"}
        /\ ncalls = 0
        /\ posts = <<>>
        /\ upstream = NoUpstream
        /\ NothingStreamed

C8_Witness ==
    /\ GROQ_API_KEY = ""
    /\ pc = "returned"
    /\ request = Request("branch", "POST", ArrayBody)
    /\ resp = CredentialMissing

IsBlankText(s) == \A i \in 1..Len(s) : s[i] = " "
BlankSelection(req) ==
    \/ req.body = NoJsonBody
    \/ /\ IsDict(req.body)
       /\ \/ req.body.v.selection = Absent
          \/ /\ IsStr(req.body.v.selection)
             /\ IsBlankText(req.body.v.selection.v)
NonBlankSelection(req) ==
    /\ IsDict(req.body)
    /\ IsStr(req.body.v.selection)
    /\ ~IsBlankText(req.body.v.selection.v)

Configured(endpoints) ==
    /\ GROQ_API_KEY # ""
    /\ pc = "returned"
    /\ request.method = "POST"
    /\ request.endpoint \in endpoints

ValidationError ==
    /\ resp.kind = "json"
    /\ resp.status = StatusBadRequest
    /\ ncalls = 0
    /\ upstream = NoUpstream

(* C9: with the credential configured, a branch or branch_summary request  *)
(* whose selection is blank (missing, empty, whitespace only) returns a    *)
(* 400 validation error whatever history, question and popup_turns are,    *)
(* and no upstream call is made.                                           *)
C9_BlankSelectionIs400 ==
    (Configured({"branch", "branch_summary"}) /\ BlankSelection(request))
        => ValidationError

(* C10: with the credential configured, a branch request with a non-blank  *)
(* selection and neither question nor popup_turns returns a 400 validation *)
(* error and makes no upstream call.                                       *)
NoQuestion(req) ==
    \/ req.body.v.question = Absent
    \/ IsStr(req.body.v.question) /\ IsBlankText(req.body.v.question.v)
NoPopupTurns(req) == req.body.v.popup_turns \in {Absent, JList(<<>>)}

C10_NeitherQuestionNorTurnsIs400 ==
    (/\ Configured({"branch"})
     /\ NonBlankSelection(request)
     /\ NoQuestion(request)
     /\ NoPopupTurns(request))
        => ValidationError

C10_Witness ==
    /\ Configured({"branch"})
    /\ IsDict(request.body)
    /\ request.body.v.selection = JStr(<<" ", "a", " ">>)
    /\ request.body.v.history = JList(<<Msg(User, JStr(<<"h">>))>>)
    /\ request.body.v.question = Absent
    /\ request.body.v.popup_turns = Absent
    /\ resp = ProvideEither

(* C11, as stated: a branch request is relayed upstream only if exactly    *)
(* one of question and popup_turns is provided; a request providing both   *)
(* is not relayed.                                                         *)
Relayed == ncalls >= 1
HasQuestion(req) == IsStr(req.body.v.question) /\ ~IsBlankText(req.body.v.question.v)
HasPopupTurns(req) ==
    req.body.v.popup_turns.t = "list" /\ req.body.v.popup_turns.v # <<>>

C11_RelayedOnlyWithExactlyOne ==
    (Configured({"branch"}) /\ Relayed) =>
        /\ IsDict(request.body)
        /\ HasQuestion(request) # HasPopupTurns(request)

(* C11, amended: a branch request is relayed only if at least one of       *)
(* question and popup_turns is provided; a valid request providing both is *)
(* relayed once, in the popup_turns form: the question is not among the    *)
(* messages sent.                                                          *)
PostedMessages == posts[1].v
QuestionMessage(req) == Msg(User, JStr(Strip(req.body.v.question.v)))

C11_RelayedOnlyWithAtLeastOne ==
    /\ (Configured({"branch"}) /\ Relayed) =>
          /\ IsDict(request.body)
          /\ HasQuestion(request) \/ HasPopupTurns(request)
    /\ (/\ Configured({"branch"})
        /\ NonBlankSelection(request)
        /\ ValidInput(request)
        /\ HasQuestion(request)
        /\ HasPopupTurns(request))
          => /\ ncalls = 1
             /\ \A i \in 1..Len(PostedMessages) :
                   PostedMessages[i] # QuestionMessage(request)

C11_Witness ==
    /\ Configured({"branch"})
    /\ IsDict(request.body)
    /\ request.body.v.selection = JStr(<<"a">>)
    /\ request.body.v.question = JStr(<<"q", " ">>)
    /\ request.body.v.popup_turns = JList(<<Msg(User, JStr(<<"u">>))>>)
    /\ ncalls = 1
    /\ resp.kind = "stream"
    /\ PostedMessages[Len(PostedMessages)] = Msg(User, JStr(<<"u">>))

(* C12, as stated: in every upstream request built by any endpoint, for    *)
(* any caller input, every message has role "user" or "assistant" and none *)
(* has role "system".                                                      *)
RelayRoles == {User, Assistant}
HasRelayRole(m) == IsDict(m) /\ m.v.role \in RelayRoles

C12_NoSystemRoleEver ==
    (pc = "returned" /\ Relayed /\ posts[1].t = "list") =>
        \A i \in 1..Len(PostedMessages) : HasRelayRole(PostedMessages[i])

(* C12, amended: every message the endpoints build themselves (selection   *)
(* context, question, popup turns, transcript header, summary instruction) *)
(* has role "user" or "assistant"; chat forwards the caller's messages     *)
(* unchanged and branch / branch_summary forward the role of each history  *)
(* entry unchanged, so a message with any other role in an upstream        *)
(* request is one the caller supplied as a chat message or history entry.  *)
C12_NoSystemRoleAdded ==
    /\ (Configured({"chat"}) /\ Relayed) => posts[1] = DataOf(request).v.messages
    /\ (Configured({"branch", "branch_summary"}) /\ Relayed) =>
          \A i \in 1..Len(PostedMessages) :
              \/ HasRelayRole(PostedMessages[i])
              \/ /\ i <= Len(request.body.v.history.v)
                 /\ \E j \in 1..Len(request.body.v.history.v) :
                       request.body.v.history.v[j] = PostedMessages[i]

C12_Witness ==
    /\ Configured({"branch"})
    /\ Relayed
    /\ request.body.v.history = JList(<<Msg(System, JStr(<<"s">>))>>)
    /\ request.body.v.popup_turns = JList(<<Msg(System, JStr(<<"x">>))>>)
    /\ PostedMessages =
         << Msg(System, JStr(<<"s">>)),
            Msg(User, JStr(<<"Selected Context:\n", "a">>)) >>

(* Entries as the specification reads them: a well-formed history entry is *)
(* an object holding role and content; a well-formed popup turn is an      *)
(* object whose role is user or assistant and whose content is text.       *)
WellFormedEntry(m) == IsDict(m) /\ m.v.role # Absent /\ m.v.content # Absent
WellFormedTurn(t) == IsDict(t) /\ t.v.role \in RelayRoles /\ IsStr(t.v.content)

ListOf(j) == IF j.t = "list" THEN j.v ELSE <<>>
KeptHistory(req) == SelectSeq(ListOf(req.body.v.history), WellFormedEntry)
KeptTurns(req) == SelectSeq(ListOf(req.body.v.popup_turns), WellFormedTurn)
Anchor(req) == Msg(User, JStr(<<"Selected Context:\n">> \o req.body.v.selection.v))
Reframed(ts) ==
    [i \in 1..Len(ts) |->
        Msg(User, JStr(<<IF ts[i].v.role = User THEN "User:" ELSE "Assistant:", " ">>
                       \o ts[i].v.content.v))]

(* C13: malformed history entries and malformed popup turns (entries that  *)
(* are no objects, lack role or content, have another role or a content    *)
(* that is no text) never make a branch or branch_summary request fail or  *)
(* be rejected: the request is relayed and the upstream list holds exactly *)
(* the well-formed entries, in their original order.                       *)
C13_MalformedEntriesDropped ==
    (/\ Configured({"branch", "branch_summary"})
     /\ NonBlankSelection(request)
     /\ request.body.v.question.t \in {"absent", "str"}
     /\ request.endpoint = "branch" =>
            HasQuestion(request) \/ HasPopupTurns(request))
        => /\ resp.kind \in {"json", "stream"}
           /\ ncalls = 1
           /\ PostedMessages =
                KeptHistory(request) \o <<Anchor(request)>>
                \o (IF request.endpoint = "branch"
                    THEN IF HasPopupTurns(request) THEN KeptTurns(request)
                         ELSE <<QuestionMessage(request)>>
                    ELSE (IF HasPopupTurns(request)
                          THEN <<TranscriptHeader>> \o Reframed(KeptTurns(request))
                          ELSE <<>>)
                         \o <<SummaryInstruction>>)

(* A popup turn the summary keeps: an object whose role is user or         *)
(* assistant and whose content is text, a missing content counting as the  *)
(* empty text.                                                             *)
ValidSummaryTurn(t) ==
    IsDict(t) /\ t.v.role \in RelayRoles /\ t.v.content.t \in {"str", "absent"}
SummaryKeptTurns(req) == SelectSeq(ListOf(req.body.v.popup_turns), ValidSummaryTurn)

Min(a, b) == IF a <= b THEN a ELSE b
AnchorText == PostedMessages[Len(KeptHistory(request)) + 1].v.content.v
SuppliedSelection == request.body.v.selection.v

C15_SelectionTruncated ==
    (Configured({"branch", "branch_summary"}) /\ Relayed) =>
        /\ AnchorText =
             <<"Selected Context:\n">>
             \o [i \in 1..Min(Len(SuppliedSelection), SelectionLimit) |->
                   SuppliedSelection[i]]
        /\ \A m \in 1..Len(PostedMessages) :
             \A k \in 1..Len(PostedMessages[m].v.content.v) :
                 PostedMessages[m].v.content.v[k] # "z"

C15_Witness ==
    /\ Configured({"branch_summary"})
    /\ Relayed
    /\ Len(SuppliedSelection) = SelectionLimit + 2
    /\ Len(AnchorText) = SelectionLimit + 1
    /\ AnchorText[SelectionLimit + 1] = "y"

(* C16: no retries.  Along every run of every endpoint at most one         *)
(* upstream request is issued per inbound call, whatever its outcome       *)
(* (network failure, non-success status, success, a stream that ends       *)
(* early); none is issued for a preflight, a configuration error or a      *)
(* validation error.                                                       *)
C16_AtMostOneUpstreamRequest ==
    /\ ncalls <= 1
    /\ Len(posts) <= 1
    /\ upstream.t \in {"raise", "resp"} => ncalls = 1
    /\ (pc # "idle" /\ resp.kind = "stream") => ncalls = 1
    /\ (pc = "returned" /\ request.method = "OPTIONS") => ncalls = 0
    /\ resp \in {EmptyResponse(StatusNoContent), CredentialMissing,
                 SelectionRequired, ProvideEither} => ncalls = 0
    /\ GROQ_API_KEY = "" => ncalls = 0

C16_Witness ==
    /\ pc = "finished"
    /\ ended = "abort"
    /\ out # <<>>
    /\ ncalls = 1

(* C17: the upstream connection of a call is held open while tokens are    *)
(* produced and is released in every run: after the [DONE] sentinel, after *)
(* the upstream closes, after a non-success status was turned into an      *)
(* error response, after the caller left; once the caller-facing response  *)
(* is finished the connection is not open.                                 *)
C17_ConnectionReleased ==
    /\ pc = "streaming" => conn = "open"
    /\ pc = "finished" => conn # "open"

(* C18: calls in flight at the same time do not interfere.  Under every    *)
(* interleaving each caller gets only the deltas decoded from its own      *)
(* upstream response, in that response's order, and the outcome of each    *)
(* call (error or stream) is the one its own request and its own upstream  *)
(* result give when the call runs alone.                                   *)
AloneOutcome(c, up) ==
    IF GROQ_API_KEY = "" THEN CredentialMissing
    ELSE IF up.t = "raise"
         THEN JsonResponse(StatusBadGateway,
                ErrorObj(<<"Network error contacting Groq: ">> \o up.text))
    ELSE IF up.status = 429 THEN JsonResponse(429, ErrorObj(<<"rate limited">>))
    ELSE StreamResponse

C18_CallsDoNotInterfere ==
    \A c \in Calls :
        LET k == calls[c]
        IN  /\ k.pc # "idle" =>
                 /\ k.messages \in {Absent, CallMessages(c)}
                 /\ GROQ_API_KEY # "" => k.resp = AloneOutcome(c, k.upstream)
                 /\ GROQ_API_KEY = "" => k.resp = CredentialMissing
            /\ k.idx <= Len(k.lines)
            /\ Flatten(k.out) = ExpectedBytes(SubSeq(k.lines, 1, k.idx))
            /\ k.resp.kind # "stream" => k.out = <<>> /\ k.lines = <<>>
            /\ k.ended = "done" => k.lines[k.idx] = FrameDone
            /\ k.ended = "eof" => k.closed /\ k.idx = Len(k.lines)

C18_Witness ==
    /\ calls["c1"].pc = "streaming"
    /\ calls["c2"].pc = "streaming"
    /\ calls["c1"].lines = <<FrameHi, FrameThere>>
    /\ calls["c2"].lines = <<FrameThere, FrameHi>>
    /\ calls["c1"].out = <<<<"Hi">>>>
    /\ calls["c2"].out = <<<<" there">>, <<"Hi">>>>

(* C19: the checks run in a fixed order on every endpoint: preflight, then *)
(* credential, then (branch, branch_summary) the selection test, then the  *)
(* assembly and the upstream call.  An OPTIONS request gets an empty 204   *)
(* and no upstream call even without credential; a POST without credential *)
(* gets the credential error (500) even when its selection is blank; a     *)
(* blank selection gets the 400 before any message is assembled.           *)
TextQuestion(req) ==
    \/ req.body = NoJsonBody
    \/ IsDict(req.body) /\ req.body.v.question.t \in {"absent", "str"}

C19_ChecksInFixedOrder ==
    /\ (pc = "returned" /\ request.method = "OPTIONS")
          => resp = EmptyResponse(StatusNoContent) /\ ncalls = 0
    /\ (pc = "returned" /\ request.method = "POST" /\ GROQ_API_KEY = "")
          => resp = CredentialMissing /\ resp.status = StatusServerError /\ ncalls = 0
    /\ (/\ Configured({"branch", "branch_summary"})
        /\ BlankSelection(request)
        /\ TextQuestion(request))
          => resp = SelectionRequired /\ ncalls = 0
    /\ (pc = "returned" /\ Relayed)
          => /\ request.method = "POST"
             /\ GROQ_API_KEY # ""
             /\ request.endpoint \in {"branch", "branch_summary"}
                   => NonBlankSelection(request)

C19_Witness ==
    /\ pc = "returned"
    /\ GROQ_API_KEY = ""
    /\ request.method = "POST"
    /\ request.endpoint = "branch_summary"
    /\ IsDict(request.body)
    /\ request.body.v.selection = JStr(<<" ">>)
    /\ resp.status = StatusServerError
    /\ resp.body = ErrorObj(<<"GROQ_API_KEY missing">>)

(* C20: the streaming path is entered if and only if the upstream status   *)
(* is exactly 200; every other status, other 2xx and 3xx codes included,   *)
(* is returned as a JSON error response with that status and nothing       *)
(* streamed; and every chunk emitted is non-empty: a frame whose content   *)
(* delta is missing or empty emits nothing.                                *)
C20_StreamIffExactly200 ==
    /\ (upstream.t = "resp" /\ upstream.status # StatusOK)
          => /\ resp.kind = "json"
             /\ resp.status = upstream.status
             /\ NothingStreamed
             /\ lines = <<>>
    /\ (upstream.t = "resp" /\ upstream.status = StatusOK) => resp.kind = "stream"
    /\ (pc = "streaming" \/ idx > 0 \/ out # <<>>)
          => upstream.t = "resp" /\ upstream.status = StatusOK
    /\ \A i \in 1..Len(out) : out[i] # <<>>
    /\ Len(out) = Cardinality({i \in 1..idx : TextDelta(lines[i]) # <<>>})

C20_Witness ==
    /\ pc = "finished"
    /\ upstream.t = "resp"
    /\ upstream.status = 302
    /\ resp.kind = "json"
    /\ resp.status = 302
    /\ out = <<>>
====
